---- MODULE Spec2Model ----
(***************************************************************************)
(* AI-credit and subscription accounting of the dropshapes backend:        *)
(* services/ai_credits_service.py, services/subscription_service.py and    *)
(* the endpoints that call them (subscriptions.py, auth.py, credits.py,    *)
(* resume.py, cover_letter.py and the AI feature endpoints).               *)
(*                                                                         *)
(* One user row and the subscriptions table are modelled.  Spec takes each *)
(* request handler as one atomic step; ConcSpec runs requests in their own *)
(* database sessions, each loading the user row when the request is        *)
(* authenticated and writing its modified columns back at commit.          *)
(***************************************************************************)
EXTENDS Integers, Sequences, FiniteSets, TLC

\* ---------------------------------------------------------------- bounds
MaxCost == 2
MaxBonus == 12
MaxUsed == 3
MaxSubs == 2
MaxTime == 2
MaxResumes == 2
MaxCoverLetters == 1
MaxRequests == 3
MaxDebt == 1
MaxRetries == 3

\* ------------------------------------------------------ program constants
TRIAL_AI_CREDITS == 10
SAFE_DB_MAX_RETRIES == 3
FREE_RESUME_LIMIT == 20
FREE_COVER_LETTER_LIMIT == 20
HTTP_200_OK == 200
HTTP_204_NO_CONTENT == 204
HTTP_400_BAD_REQUEST == 400
HTTP_402_PAYMENT_REQUIRED == 402
HTTP_403_FORBIDDEN == 403
HTTP_404_NOT_FOUND == 404
HTTP_500_INTERNAL_SERVER_ERROR == 500

\* The modelled user and the admin who owns the plan templates (user_id values).
UserId == "user"
TemplateOwner == "admin"

\* Optional[int]: None is the empty sequence, a value n is <<n>>.
None == << >>
Some(n) == << n >>

Max(a, b) == IF a >= b THEN a ELSE b
Min(a, b) == IF a <= b THEN a ELSE b

VARIABLES
    ai_credits,                 \* User.ai_credits (bonus credits)
    subscription_tokens_used,   \* User.subscription_tokens_used
    has_used_free_limits,       \* User.has_used_free_limits
    is_admin,                   \* User.is_admin
    subscriptions,              \* the subscriptions table, in id order
    resumes,                    \* created_at of each resume of the user
    cover_letters,              \* created_at of each cover letter of the user
    now,                        \* the clock: the time of the next timestamp taken
    response,                   \* the HTTP response of the last request
    sessions,                   \* ConcSpec: the requests in flight; RetrySpec:
                                \* the loop state of the retrying call in flight
    ledger                      \* history: what the concurrent calls were granted,
                                \* what the renewal hook last found, whether a
                                \* resource was created before any subscription,
                                \* how many were stored on the empty free tier,
                                \* what each call of the wrapped function did

vars == << ai_credits, subscription_tokens_used, has_used_free_limits, is_admin,
           subscriptions, resumes, cover_letters, now, response, sessions, ledger >>

user_vars == << ai_credits, subscription_tokens_used, has_used_free_limits >>

\* ------------------------------------------------- subscriptions.py:25-37
PlanNames == {"Free", "Basic", "Plus", "Professional", "Business", "Enterprise", "Premium"}

get_plan_ai_credits(plan_name) ==
    CASE plan_name = "Free" -> 0
      [] plan_name = "Basic" -> 100000
      [] plan_name = "Plus" -> 1000000
      [] plan_name = "Professional" -> 500000
      [] plan_name = "Business" -> 5000000
      [] plan_name = "Enterprise" -> 10000000
      [] plan_name = "Premium" -> 2000000
      [] OTHER -> 0

\* ------------------------------------------------ subscription_service.py
\* The ids of the user's rows with is_active set.
active_subscriptions(subs) ==
    { i \in DOMAIN subs : subs[i].user_id = UserId /\ subs[i].is_active }

\* The key with the limit left out: the row created last wins.
SubKeyLess_newest(subs, i, j) == i < j

\* key=lambda x: (x.ai_credits_limit or 0, x.created_at); rows are created in
\* id order, so the id stands for created_at.
SubKeyLess(subs, i, j) ==
    \/ subs[i].ai_credits_limit < subs[j].ai_credits_limit
    \/ subs[i].ai_credits_limit = subs[j].ai_credits_limit /\ i < j

\* The id of the row returned, 0 for None.
get_user_subscription(subs) ==
    LET act == active_subscriptions(subs)
    IN  IF act = {} THEN 0
        ELSE CHOOSE i \in act : \A j \in act \ {i} : SubKeyLess(subs, j, i)

get_total_usage(res, cls) ==
    [resume_count |-> Len(res), cover_letter_count |-> Len(cls)]

\* The count with the rows created at the period start itself left out.
CountAfter(seq, t) == Cardinality({ k \in DOMAIN seq : seq[k] > t })

CountSince(seq, t) == Cardinality({ k \in DOMAIN seq : seq[k] >= t })

get_current_usage(subs, res, cls) ==
    LET s == get_user_subscription(subs)
    IN  IF s # 0 /\ subs[s].current_period_start # None
        THEN [resume_count |-> CountSince(res, subs[s].current_period_start[1]),
              cover_letter_count |-> CountSince(cls, subs[s].current_period_start[1])]
        ELSE get_total_usage(res, cls)

\* The limits with the -1 of an unlimited plan passed on as it is stored.
get_subscription_limits_unmapped(subs, flag) ==
    LET s == get_user_subscription(subs)
    IN  IF s = 0
        THEN IF flag
             THEN [resume_limit |-> Some(0), cover_letter_limit |-> Some(0),
                   ai_credits_limit |-> 0]
             ELSE [resume_limit |-> Some(FREE_RESUME_LIMIT),
                   cover_letter_limit |-> Some(FREE_COVER_LETTER_LIMIT),
                   ai_credits_limit |-> 0]
        ELSE [resume_limit |-> Some(subs[s].resume_limit),
              cover_letter_limit |-> Some(subs[s].cover_letter_limit),
              ai_credits_limit |-> subs[s].ai_credits_limit]

get_subscription_limits(subs, flag) ==
    LET s == get_user_subscription(subs)
    IN  IF s = 0
        THEN IF flag
             THEN [resume_limit |-> Some(0), cover_letter_limit |-> Some(0),
                   ai_credits_limit |-> 0]
             ELSE [resume_limit |-> Some(FREE_RESUME_LIMIT),
                   cover_letter_limit |-> Some(FREE_COVER_LETTER_LIMIT),
                   ai_credits_limit |-> 0]
        ELSE [resume_limit |-> IF subs[s].resume_limit = -1 THEN None
                               ELSE Some(subs[s].resume_limit),
              cover_letter_limit |-> IF subs[s].cover_letter_limit = -1 THEN None
                                     ELSE Some(subs[s].cover_letter_limit),
              ai_credits_limit |-> subs[s].ai_credits_limit]

\* check_and_mark_free_limits_used: the value of has_used_free_limits afterwards.
check_and_mark_free_limits_used(subs, flag, res, cls) ==
    IF flag THEN flag
    ELSE IF get_user_subscription(subs) # 0 THEN flag
    ELSE LET usage == get_total_usage(res, cls)
         IN  IF usage.resume_count > 0 \/ usage.cover_letter_count > 0 THEN TRUE ELSE flag

\* The flag recomputed from the rows present, the stored value dropped.
mark_free_limits_recomputed(flag, res, cls) ==
    LET usage == get_total_usage(res, cls)
    IN  usage.resume_count > 0 \/ usage.cover_letter_count > 0

\* The flag set from the resumes alone, the cover letters not counted.
mark_free_limits_resumes_only(flag, res, cls) ==
    LET usage == get_total_usage(res, cls)
    IN  IF usage.resume_count > 0 THEN TRUE ELSE flag

\* mark_free_limits_as_used_on_subscription: the value of the flag afterwards.
mark_free_limits_as_used_on_subscription(flag, res, cls) ==
    LET usage == get_total_usage(res, cls)
    IN  IF usage.resume_count > 0 \/ usage.cover_letter_count > 0 THEN TRUE ELSE flag

\* The limit check without the bonus-credit overflow.
check_limit_no_bonus(kind, subs, flag, credits, used, res, cls) ==
    LET limits == get_subscription_limits(subs, flag)
        usage == get_current_usage(subs, res, cls)
        limit == IF kind = "resume" THEN limits.resume_limit ELSE limits.cover_letter_limit
        count == IF kind = "resume" THEN usage.resume_count ELSE usage.cover_letter_count
        ai_credits_limit == limits.ai_credits_limit
        subscription_tokens_remaining ==
            IF ai_credits_limit > 0 THEN Max(0, ai_credits_limit - used) ELSE 0
    IN  IF limit = None THEN TRUE
        ELSE IF count < limit[1] THEN TRUE
        ELSE IF subscription_tokens_remaining > 0 THEN TRUE
        ELSE FALSE

\* check_resume_limit / check_cover_letter_limit, kind in {"resume", "cover_letter"}.
check_limit(kind, subs, flag, credits, used, res, cls) ==
    LET limits == get_subscription_limits(subs, flag)
        usage == get_current_usage(subs, res, cls)
        limit == IF kind = "resume" THEN limits.resume_limit ELSE limits.cover_letter_limit
        count == IF kind = "resume" THEN usage.resume_count ELSE usage.cover_letter_count
        ai_credits_limit == limits.ai_credits_limit
        subscription_tokens_remaining ==
            IF ai_credits_limit > 0 THEN Max(0, ai_credits_limit - used) ELSE 0
    IN  IF limit = None THEN TRUE
        ELSE IF count < limit[1] THEN TRUE
        ELSE IF credits > 0 THEN TRUE
        ELSE IF subscription_tokens_remaining > 0 THEN TRUE
        ELSE FALSE

check_resume_limit(subs, flag, credits, used, res, cls) ==
    check_limit("resume", subs, flag, credits, used, res, cls)

check_cover_letter_limit(subs, flag, credits, used, res, cls) ==
    check_limit("cover_letter", subs, flag, credits, used, res, cls)

\* validate_resume_creation / validate_cover_letter_creation: the flag after the
\* bookkeeping and whether the creation is allowed (no SubscriptionLimitError).
validate_creation(kind, subs, flag, credits, used, res, cls) ==
    LET flag1 == check_and_mark_free_limits_used(subs, flag, res, cls)
    IN  [has_used_free_limits |-> flag1,
         allowed |-> check_limit(kind, subs, flag1, credits, used, res, cls)]

\* The reset that carries one used token over into the new period.
reset_subscription_credits_carry(used) == Min(used, 1)

\* reset_subscription_credits: the value of subscription_tokens_used afterwards.
reset_subscription_credits(used) == 0

\* The hook with the reset made only where the hook sets the period dates.
handle_subscription_renewal_or_upgrade_unless_dated(subs, new, used, flag, res, cls, t) ==
    [subscriptions |->
        IF subs[new].current_period_start = None
        THEN [subs EXCEPT ![new].current_period_start = Some(t)]
        ELSE subs,
     subscription_tokens_used |->
        IF subs[new].current_period_start = None THEN 0 ELSE used,
     has_used_free_limits |-> mark_free_limits_as_used_on_subscription(flag, res, cls)]

\* handle_subscription_renewal_or_upgrade on row new of subs.
handle_subscription_renewal_or_upgrade(subs, new, used, flag, res, cls, t) ==
    [subscriptions |->
        IF subs[new].current_period_start = None
        THEN [subs EXCEPT ![new].current_period_start = Some(t)]
        ELSE subs,
     subscription_tokens_used |-> reset_subscription_credits(used),
     has_used_free_limits |-> mark_free_limits_as_used_on_subscription(flag, res, cls)]

\* ------------------------------------------------- ai_credits_service.py
Detail(kind) == [kind |-> kind, required |-> 0, bonus |-> 0, subscription |-> 0]

\* The ledger with the bonus taken before the check of the total.
check_and_deduct_credits_partial(subs, flag, credits, used, credits_required) ==
    LET limits == get_subscription_limits(subs, flag)
        subscription_tokens_remaining == Max(0, limits.ai_credits_limit - used)
        bonus_to_deduct == IF credits > 0 THEN Min(credits, credits_required) ELSE 0
        remaining_to_deduct == credits_required - bonus_to_deduct
    IN  IF subscription_tokens_remaining < remaining_to_deduct
        THEN [ok |-> FALSE, status |-> HTTP_402_PAYMENT_REQUIRED,
              detail |-> [kind |-> "Not enough AI credits",
                          required |-> credits_required,
                          bonus |-> credits,
                          subscription |-> subscription_tokens_remaining],
              ai_credits |-> credits - bonus_to_deduct, subscription_tokens_used |-> used]
        ELSE [ok |-> TRUE, status |-> HTTP_200_OK, detail |-> Detail("ok"),
              ai_credits |-> credits - bonus_to_deduct,
              subscription_tokens_used |->
                  IF remaining_to_deduct > 0 THEN used + remaining_to_deduct ELSE used]

\* check_and_deduct_credits on a user object holding credits and used: the
\* outcome and the values of the two fields afterwards.
check_and_deduct_credits(subs, flag, credits, used, credits_required) ==
    LET limits == get_subscription_limits(subs, flag)
        ai_credits_limit == limits.ai_credits_limit
        subscription_tokens_remaining == Max(0, ai_credits_limit - used)
        total_available == credits + subscription_tokens_remaining
        bonus_to_deduct == IF credits > 0 THEN Min(credits, credits_required) ELSE 0
        remaining_to_deduct == credits_required - bonus_to_deduct
    IN  IF total_available < credits_required
        THEN [ok |-> FALSE, status |-> HTTP_402_PAYMENT_REQUIRED,
              detail |-> [kind |-> "Not enough AI credits",
                          required |-> credits_required,
                          bonus |-> credits,
                          subscription |-> subscription_tokens_remaining],
              ai_credits |-> credits, subscription_tokens_used |-> used]
        ELSE [ok |-> TRUE, status |-> HTTP_200_OK, detail |-> Detail("ok"),
              ai_credits |-> credits - bonus_to_deduct,
              subscription_tokens_used |->
                  IF remaining_to_deduct > 0 THEN used + remaining_to_deduct ELSE used]

\* The balance set to the amount given instead of raised by it.
add_credits_assign(credits, credits_to_add) == credits_to_add

\* add_credits: the new balance.
add_credits(credits, credits_to_add) == credits + credits_to_add

\* The test on the bonus credits alone.
has_sufficient_credits_bonus_only(subs, flag, credits, used, credits_required) ==
    credits >= credits_required

has_sufficient_credits(subs, flag, credits, used, credits_required) ==
    LET limits == get_subscription_limits(subs, flag)
        subscription_tokens_remaining == Max(0, limits.ai_credits_limit - used)
    IN  credits + subscription_tokens_remaining >= credits_required

\* The credits check_and_deduct_credits counts as available.
available(subs, flag, credits, used) ==
    credits + Max(0, get_subscription_limits(subs, flag).ai_credits_limit - used)

\* ---------------------------------------------------------- input domains
Costs == 0..MaxCost
AddAmounts == {-1, 1, 2}
PaymentOutcomes == {"none", "stripe_ok", "stripe_error"}
WebhookEvents == {"customer.subscription.deleted", "customer.subscription.updated"}

\* The endpoints that charge through check_and_deduct_credits, and what each
\* does with an HTTPException raised inside its try block.
AIEndpoints == {"grammar_check", "pdf_analyze", "interview_training", "task_management",
                "text_to_speech", "professional_networking", "resume_ai", "cover_letter_ai"}

on_http_exception(endpoint) ==
    CASE endpoint \in {"resume_ai", "cover_letter_ai"} -> "reraise"
      [] endpoint = "grammar_check" -> "fixed_detail"
      [] OTHER -> "str_of_exception"

\* The response of an AI endpoint, r being what check_and_deduct_credits did.
endpoint_response(endpoint, r, ai_fails) ==
    IF r.ok
    THEN IF ai_fails
         THEN [status |-> HTTP_500_INTERNAL_SERVER_ERROR, detail |-> Detail("ai_error")]
         ELSE [status |-> HTTP_200_OK, detail |-> Detail("ok")]
    ELSE CASE on_http_exception(endpoint) = "reraise" ->
                [status |-> r.status, detail |-> r.detail]
           [] on_http_exception(endpoint) = "fixed_detail" ->
                [status |-> HTTP_500_INTERNAL_SERVER_ERROR,
                 detail |-> Detail("Grammar check service temporarily unavailable")]
           [] OTHER ->
                [status |-> HTTP_500_INTERNAL_SERVER_ERROR, detail |-> r.detail]

\* The plan templates an admin created (create_plan), rows 1 and 2 of the table.
PlanRow(name, resume_limit, cover_letter_limit, ai_limit) ==
    [user_id |-> TemplateOwner, name |-> name, is_active |-> TRUE,
     resume_limit |-> resume_limit, cover_letter_limit |-> cover_letter_limit,
     ai_credits_limit |-> ai_limit, payment_provider |-> "none",
     subscription_id |-> None, stripe_price_id |-> TRUE, current_period_start |-> None]

Templates == << PlanRow("Starter", 1, 1, 2), PlanRow("Basic", -1, -1, 0) >>

\* What .first() may return for the user's active rows: any of them, 0 for None.
first_active(subs) ==
    IF active_subscriptions(subs) = {} THEN {0} ELSE active_subscriptions(subs)

Deactivate(subs, i) == IF i = 0 THEN subs ELSE [subs EXCEPT ![i].is_active = FALSE]

\* subscriptions.py:114-187: the row subscribe_to_plan builds from the plan.
new_subscription(plan, payment, id, t) ==
    [user_id |-> UserId, name |-> plan.name, is_active |-> TRUE,
     resume_limit |-> plan.resume_limit, cover_letter_limit |-> plan.cover_letter_limit,
     ai_credits_limit |-> IF plan.ai_credits_limit # 0 THEN plan.ai_credits_limit
                          ELSE get_plan_ai_credits(plan.name),
     payment_provider |-> IF payment = "none" THEN "manual" ELSE "stripe",
     subscription_id |-> IF payment = "none" THEN None ELSE Some(id),
     stripe_price_id |-> payment # "none",
     current_period_start |-> Some(t)]

UserRows(subs) == { i \in DOMAIN subs : subs[i].user_id = UserId }

\* ConcSpec: a request slot.  A request in flight holds the user row as its
\* session loaded it (get_db gives each request its own session) and what it
\* read before its external call.
Idle == [pc |-> "idle", c |-> 0, ai_credits |-> 0, subscription_tokens_used |-> 0,
         has_used_free_limits |-> FALSE, sub |-> 0, plan |-> 0, payment |-> "none"]
Requests == 1..2

\* ------------------------------------------------------------------- Init
\* A row of the user's, as subscribe_to_plan made it from template plan at time t.
UserRow(plan, payment, id, t) == new_subscription(Templates[plan], payment, id, t)

NoSessions == [r \in Requests |-> Idle]
NoLedger == [start |-> 0, granted |-> 0, clean |-> TRUE, begun |-> 0, reset_from |-> 0,
             flag_from |-> FALSE, free_created |-> FALSE, gated |-> 0,
             calls |-> << >>]
Registered == [status |-> HTTP_200_OK, detail |-> Detail("registered")]

\* Spec: the user holds the trial credits of register() (auth.py:34-41), has no
\* subscription or an active one, and may have a resume and a cover letter.
Init ==
    /\ ai_credits = TRIAL_AI_CREDITS
    /\ subscription_tokens_used = 0
    /\ has_used_free_limits \in BOOLEAN
    /\ is_admin \in BOOLEAN
    /\ subscriptions \in {Templates} \cup
           { Append(Templates, UserRow(p, "none", Len(Templates) + 1, 0)) :
                 p \in DOMAIN Templates }
    /\ resumes \in {<< >>, << 1 >>}
    /\ cover_letters \in {<< >>, << 2 >>}
    /\ now = MaxTime
    /\ response = Registered
    /\ sessions = NoSessions
    /\ ledger = NoLedger

\* LifecycleSpec: a user without subscription, resume or cover letter who has
\* spent the trial credits down to 0 or 1.
LifecycleInit ==
    /\ ai_credits \in 0..1
    /\ subscription_tokens_used = 0
    /\ has_used_free_limits = FALSE
    /\ is_admin = FALSE
    /\ subscriptions = Templates
    /\ resumes = << >>
    /\ cover_letters = << >>
    /\ now = 0
    /\ response = Registered
    /\ sessions = NoSessions
    /\ ledger = NoLedger

conc_vars == << sessions, ledger >>

\* ------------------------------------------------- handlers, one step each
\* An AI endpoint that gives the credits back when the AI operation fails.
ai_endpoint_refunding(endpoint, c, ai_fails) ==
    LET r == check_and_deduct_credits(subscriptions, has_used_free_limits,
                                      ai_credits, subscription_tokens_used, c)
    IN  /\ r.subscription_tokens_used <= MaxUsed
        /\ ai_credits' = IF r.ok /\ ai_fails THEN ai_credits ELSE r.ai_credits
        /\ subscription_tokens_used' =
               IF r.ok /\ ai_fails THEN subscription_tokens_used
               ELSE r.subscription_tokens_used
        /\ response' = endpoint_response(endpoint, r, ai_fails)
        /\ UNCHANGED << has_used_free_limits, is_admin, subscriptions, resumes,
                        cover_letters, now, conc_vars >>

\* An AI endpoint: check_and_deduct_credits, then the AI operation.
ai_endpoint(endpoint, c, ai_fails) ==
    LET r == check_and_deduct_credits(subscriptions, has_used_free_limits,
                                      ai_credits, subscription_tokens_used, c)
    IN  /\ r.subscription_tokens_used <= MaxUsed
        /\ ai_credits' = r.ai_credits
        /\ subscription_tokens_used' = r.subscription_tokens_used
        /\ response' = endpoint_response(endpoint, r, ai_fails)
        /\ UNCHANGED << has_used_free_limits, is_admin, subscriptions, resumes,
                        cover_letters, now, conc_vars >>

\* resume.py:577-637 and cover_letter.py:286-344: found says whether the
\* resource named in the path is one of the user's.
generate_ai_pdf(found, ai_fails) ==
    /\ UNCHANGED << subscription_tokens_used, has_used_free_limits, is_admin,
                    subscriptions, resumes, cover_letters, now, conc_vars >>
    /\ IF ~found
       THEN /\ response' = [status |-> HTTP_404_NOT_FOUND, detail |-> Detail("not found")]
            /\ UNCHANGED ai_credits
       ELSE IF ai_credits < 1
       THEN /\ response' = [status |-> HTTP_402_PAYMENT_REQUIRED,
                            detail |-> Detail("Not enough AI credits for PDF generation")]
            /\ UNCHANGED ai_credits
       ELSE /\ ai_credits' = ai_credits - 1
            /\ response' = IF ai_fails
                           THEN [status |-> HTTP_500_INTERNAL_SERVER_ERROR,
                                 detail |-> Detail("ai_error")]
                           ELSE [status |-> HTTP_200_OK, detail |-> Detail("ok")]

generate_resume_ai_pdf(found, ai_fails) ==
    /\ found => Len(resumes) > 0
    /\ generate_ai_pdf(found, ai_fails)

generate_cover_letter_ai_pdf(found, ai_fails) ==
    /\ found => Len(cover_letters) > 0
    /\ generate_ai_pdf(found, ai_fails)

\* auth.py:202-219, POST /auth/credits/add.
auth_add_credits(credits) ==
    /\ UNCHANGED << subscription_tokens_used, has_used_free_limits, is_admin,
                    subscriptions, resumes, cover_letters, now, conc_vars >>
    /\ IF ~is_admin
       THEN /\ response' = [status |-> HTTP_403_FORBIDDEN, detail |-> Detail("admins only")]
            /\ UNCHANGED ai_credits
       ELSE LET new_balance == add_credits(ai_credits, credits)
            IN  /\ new_balance \in -MaxDebt..MaxBonus
                /\ ai_credits' = new_balance
                /\ response' = [status |-> HTTP_200_OK,
                                detail |-> [kind |-> "added", credits |-> credits,
                                            new_balance |-> new_balance]]

\* credits.py:81-107, POST /credits/add.
credits_add(amount) ==
    /\ UNCHANGED << subscription_tokens_used, has_used_free_limits, is_admin,
                    subscriptions, resumes, cover_letters, now, conc_vars >>
    /\ IF amount <= 0
       THEN /\ response' = [status |-> HTTP_400_BAD_REQUEST,
                            detail |-> Detail("Amount must be positive")]
            /\ UNCHANGED ai_credits
       ELSE /\ ai_credits + amount <= MaxBonus
            /\ ai_credits' = ai_credits + amount
            /\ response' = [status |-> HTTP_200_OK, detail |-> Detail("added")]

\* auth.py:221-247: an admin gives the trial credits to the modelled user.
give_trial_credits_to_user ==
    /\ add_credits(ai_credits, TRIAL_AI_CREDITS) <= MaxBonus
    /\ ai_credits' = add_credits(ai_credits, TRIAL_AI_CREDITS)
    /\ UNCHANGED << subscription_tokens_used, has_used_free_limits, is_admin,
                    subscriptions, resumes, cover_letters, now, response, conc_vars >>

\* auth.py:249-275: an admin gives the trial credits to every user with none.
give_trial_credits_to_all_zero_credit_users ==
    /\ ai_credits' = IF ai_credits = 0 THEN TRIAL_AI_CREDITS ELSE ai_credits
    /\ UNCHANGED << subscription_tokens_used, has_used_free_limits, is_admin,
                    subscriptions, resumes, cover_letters, now, response, conc_vars >>

\* subscriptions.py:83-228, POST /subscriptions/subscribe.
subscribe_to_plan(plan_id, payment) ==
    \E existing \in first_active(subscriptions) :
        LET subs1 == Deactivate(subscriptions, existing)
            found == plan_id \in DOMAIN subs1 /\ subs1[plan_id].is_active
            id == Len(subs1) + 1
        IN  /\ UNCHANGED << ai_credits, is_admin, resumes, cover_letters, sessions >>
            /\ IF ~found
               THEN /\ subscriptions' = subs1
                    /\ response' = [status |-> HTTP_404_NOT_FOUND,
                                    detail |-> Detail("Subscription plan not found")]
                    /\ UNCHANGED << subscription_tokens_used, has_used_free_limits, now, ledger >>
               ELSE IF payment # "none" /\ (payment = "stripe_error" \/ ~subs1[plan_id].stripe_price_id)
               THEN /\ subscriptions' = subs1
                    /\ response' = [status |-> HTTP_400_BAD_REQUEST,
                                    detail |-> Detail("Stripe error")]
                    /\ UNCHANGED << subscription_tokens_used, has_used_free_limits, now, ledger >>
               ELSE LET subs2 == Append(subs1, new_subscription(subs1[plan_id], payment, id, now))
                        h == handle_subscription_renewal_or_upgrade(
                                 subs2, id, subscription_tokens_used, has_used_free_limits,
                                 resumes, cover_letters, now)
                    IN  /\ Cardinality(UserRows(subs1)) < MaxSubs
                        /\ now < MaxTime
                        /\ now' = now + 1
                        /\ subscriptions' = h.subscriptions
                        /\ subscription_tokens_used' = h.subscription_tokens_used
                        /\ has_used_free_limits' = h.has_used_free_limits
                        /\ response' = [status |-> HTTP_200_OK, detail |-> Detail("subscribed")]
                        /\ ledger' = [ledger EXCEPT !.reset_from = subscription_tokens_used,
                                                    !.flag_from = has_used_free_limits]

\* subscriptions.py:230-273, POST /subscriptions/cancel.
cancel_subscription(stripe_fails) ==
    \E sub \in first_active(subscriptions) :
        /\ UNCHANGED << ai_credits, is_admin, resumes, cover_letters, now, conc_vars >>
        /\ IF sub = 0
           THEN /\ response' = [status |-> HTTP_404_NOT_FOUND,
                                detail |-> Detail("No active subscription found")]
                /\ UNCHANGED << subscriptions, subscription_tokens_used, has_used_free_limits >>
           ELSE IF /\ subscriptions[sub].payment_provider = "stripe"
                   /\ subscriptions[sub].subscription_id # None
                   /\ stripe_fails
           THEN /\ response' = [status |-> HTTP_400_BAD_REQUEST, detail |-> Detail("Stripe error")]
                /\ UNCHANGED << subscriptions, subscription_tokens_used, has_used_free_limits >>
           ELSE LET usage == get_total_usage(resumes, cover_letters)
                IN  /\ subscriptions' = Deactivate(subscriptions, sub)
                    /\ subscription_tokens_used' = 0
                    /\ has_used_free_limits' =
                           IF usage.resume_count > 0 \/ usage.cover_letter_count > 0
                           THEN TRUE ELSE has_used_free_limits
                    /\ response' = [status |-> HTTP_200_OK, detail |-> Detail("cancelled")]

\* The row a webhook event names: Subscription.subscription_id == sid, 0 for None.
by_subscription_id(subs, sid) ==
    IF \E i \in DOMAIN subs : subs[i].subscription_id = Some(sid)
    THEN CHOOSE i \in DOMAIN subs : subs[i].subscription_id = Some(sid)
    ELSE 0

\* subscriptions.py:275-400, POST /subscriptions/webhook.
\* The customer.subscription.updated event carries the period Stripe has just
\* started, so its current_period_start is the time of the event.
handle_stripe_webhook(event_type, sid) ==
    LET row == by_subscription_id(subscriptions, sid)
    IN  /\ UNCHANGED << user_vars, is_admin, resumes, cover_letters, conc_vars >>
        /\ response' = [status |-> HTTP_200_OK, detail |-> Detail("webhook")]
        /\ IF row = 0 THEN UNCHANGED << subscriptions, now >>
           ELSE IF event_type = "customer.subscription.deleted"
           THEN /\ subscriptions' = Deactivate(subscriptions, row)
                /\ UNCHANGED now
           ELSE LET expected_credits == get_plan_ai_credits(subscriptions[row].name)
                IN  /\ now < MaxTime
                    /\ now' = now + 1
                    /\ subscriptions' =
                        [subscriptions EXCEPT
                            ![row].current_period_start = Some(now),
                            ![row].ai_credits_limit =
                                IF @ = 0 /\ expected_credits > 0 THEN expected_credits ELSE @]

\* The user meets the gate on the free tier with nothing to fall back on: no
\* subscription in force, has_used_free_limits false, no bonus credit (without
\* a subscription there are no subscription tokens).
OnEmptyFreeTier ==
    /\ get_user_subscription(subscriptions) = 0
    /\ ~has_used_free_limits
    /\ ai_credits <= 0

\* The creation that spends a bonus credit when only the credit lets it pass.
create_resume_spending ==
    LET v == validate_creation("resume", subscriptions, has_used_free_limits, ai_credits,
                               subscription_tokens_used, resumes, cover_letters)
        spent == IF /\ ~check_limit_no_bonus("resume", subscriptions, v.has_used_free_limits,
                                             ai_credits, subscription_tokens_used, resumes,
                                             cover_letters)
                    /\ ai_credits > 0
                 THEN 1 ELSE 0
    IN  /\ has_used_free_limits' = v.has_used_free_limits
        /\ UNCHANGED << subscription_tokens_used, is_admin, subscriptions,
                        cover_letters, sessions >>
        /\ IF v.allowed
           THEN /\ Len(resumes) < MaxResumes
                /\ now < MaxTime
                /\ now' = now + 1
                /\ ai_credits' = ai_credits - spent
                /\ resumes' = Append(resumes, now)
                /\ response' = [status |-> HTTP_200_OK, detail |-> Detail("created")]
                /\ ledger' = [ledger EXCEPT !.free_created = @ \/ UserRows(subscriptions) = {},
                                    !.gated = @ + IF OnEmptyFreeTier THEN 1 ELSE 0]
           ELSE /\ UNCHANGED << ai_credits, resumes, now, ledger >>
                /\ response' = [status |-> HTTP_403_FORBIDDEN, detail |-> Detail("limit reached")]

\* resume.py:96-277 (and the other create-resume endpoints).
create_resume ==
    LET v == validate_creation("resume", subscriptions, has_used_free_limits, ai_credits,
                               subscription_tokens_used, resumes, cover_letters)
    IN  /\ has_used_free_limits' = v.has_used_free_limits
        /\ UNCHANGED << ai_credits, subscription_tokens_used, is_admin, subscriptions,
                        cover_letters, sessions >>
        /\ IF v.allowed
           THEN /\ Len(resumes) < MaxResumes
                /\ now < MaxTime
                /\ now' = now + 1
                /\ resumes' = Append(resumes, now)
                /\ response' = [status |-> HTTP_200_OK, detail |-> Detail("created")]
                /\ ledger' = [ledger EXCEPT !.free_created = @ \/ UserRows(subscriptions) = {},
                                    !.gated = @ + IF OnEmptyFreeTier THEN 1 ELSE 0]
           ELSE /\ UNCHANGED << resumes, now, ledger >>
                /\ response' = [status |-> HTTP_403_FORBIDDEN, detail |-> Detail("limit reached")]

\* cover_letter.py:105-172.
create_cover_letter ==
    LET v == validate_creation("cover_letter", subscriptions, has_used_free_limits, ai_credits,
                               subscription_tokens_used, resumes, cover_letters)
    IN  /\ has_used_free_limits' = v.has_used_free_limits
        /\ UNCHANGED << ai_credits, subscription_tokens_used, is_admin, subscriptions,
                        resumes, sessions >>
        /\ IF v.allowed
           THEN /\ Len(cover_letters) < MaxCoverLetters
                /\ now < MaxTime
                /\ now' = now + 1
                /\ cover_letters' = Append(cover_letters, now)
                /\ response' = [status |-> HTTP_200_OK, detail |-> Detail("created")]
                /\ ledger' = [ledger EXCEPT !.free_created = @ \/ UserRows(subscriptions) = {},
                                    !.gated = @ + IF OnEmptyFreeTier THEN 1 ELSE 0]
           ELSE /\ UNCHANGED << cover_letters, now, ledger >>
                /\ response' = [status |-> HTTP_403_FORBIDDEN, detail |-> Detail("limit reached")]

\* db.delete(row): the table without its k-th row.
Remove(seq, k) == [i \in 1..(Len(seq) - 1) |-> IF i < k THEN seq[i] ELSE seq[i + 1]]

\* resume.py:544-572, DELETE /resumes/{resume_id}.
delete_resume(k) ==
    /\ UNCHANGED << user_vars, is_admin, subscriptions, cover_letters, now, conc_vars >>
    /\ IF k \in DOMAIN resumes
       THEN /\ resumes' = Remove(resumes, k)
            /\ response' = [status |-> HTTP_204_NO_CONTENT, detail |-> Detail("deleted")]
       ELSE /\ UNCHANGED resumes
            /\ response' = [status |-> HTTP_404_NOT_FOUND, detail |-> Detail("Resume not found")]

\* cover_letter.py:242-284, DELETE /cover-letters/{cover_letter_id}.
delete_cover_letter(k) ==
    /\ UNCHANGED << user_vars, is_admin, subscriptions, resumes, now, conc_vars >>
    /\ IF k \in DOMAIN cover_letters
       THEN /\ cover_letters' = Remove(cover_letters, k)
            /\ response' = [status |-> HTTP_200_OK, detail |-> Detail("deleted")]
       ELSE /\ UNCHANGED cover_letters
            /\ response' = [status |-> HTTP_404_NOT_FOUND,
                            detail |-> Detail("Cover letter not found")]

\* ------------------------------------------------------------------- Spec
\* Spec: the operations that change the credit balances.
AIRequest == \E e \in AIEndpoints, c \in Costs, f \in BOOLEAN : ai_endpoint(e, c, f)
ResumeAIPdf == \E found \in BOOLEAN, f \in BOOLEAN : generate_resume_ai_pdf(found, f)
CoverLetterAIPdf == \E found \in BOOLEAN, f \in BOOLEAN : generate_cover_letter_ai_pdf(found, f)
AuthAddCredits == \E n \in AddAmounts : auth_add_credits(n)
CreditsAdd == \E n \in AddAmounts : credits_add(n)

Next ==
    \/ AIRequest
    \/ ResumeAIPdf
    \/ CoverLetterAIPdf
    \/ AuthAddCredits
    \/ CreditsAdd
    \/ give_trial_credits_to_user
    \/ give_trial_credits_to_all_zero_credit_users

Spec == Init /\ [][Next]_vars

\* LifecycleSpec: the subscription lifecycle, the creation gate and the ledger.
Charge == \E c \in Costs : ai_endpoint("resume_ai", c, FALSE)
Subscribe ==
    \E p \in 1..(Len(subscriptions) + 1), pay \in PaymentOutcomes : subscribe_to_plan(p, pay)
Cancel == \E f \in BOOLEAN : cancel_subscription(f)
Webhook ==
    \E ev \in WebhookEvents, sid \in 1..(Len(subscriptions) + 1) :
        handle_stripe_webhook(ev, sid)

DeleteResume == \E k \in 1..(Len(resumes) + 1) : delete_resume(k)
DeleteCoverLetter == \E k \in 1..(Len(cover_letters) + 1) : delete_cover_letter(k)

LifecycleNext ==
    \/ Charge
    \/ Subscribe
    \/ Cancel
    \/ Webhook
    \/ create_resume
    \/ create_cover_letter
    \/ DeleteResume
    \/ DeleteCoverLetter

LifecycleSpec == LifecycleInit /\ [][LifecycleNext]_vars

\* ---------------------------------------------------------------- GateSpec
\* The creation gate on its own, from the states a user can meet it in: never
\* subscribed or on the Starter plan, with or without a bonus credit, with
\* subscription tokens left or not, with resources created before or not.  A
\* never-subscribed user whose flag is still false has at most one resource.
GateInit ==
    /\ subscriptions \in {Templates, Append(Templates, UserRow(1, "none", Len(Templates) + 1, 0))}
    /\ is_admin = FALSE
    /\ has_used_free_limits \in BOOLEAN
    /\ ai_credits \in 0..1
    /\ subscription_tokens_used \in
           IF UserRows(subscriptions) = {} THEN {0} ELSE 0..Templates[1].ai_credits_limit
    /\ resumes \in {<< >>, << 0 >>}
    /\ cover_letters \in {<< >>, << 0 >>}
    /\ (UserRows(subscriptions) = {} /\ ~has_used_free_limits)
           => Len(resumes) + Len(cover_letters) <= 1
    /\ now = 0
    /\ response = Registered
    /\ sessions = NoSessions
    /\ ledger = NoLedger

GateNext ==
    \/ create_resume
    \/ create_cover_letter

GateSpec == GateInit /\ [][GateNext]_vars

\* --------------------------------------------------------------- QuerySpec
\* The read-only operations, applied to states drawn from the ones the program
\* can be in.

\* Timestamps of at most n rows of one table, in insertion order.
Stamps(n) ==
    { st \in UNION { [1..k -> 0..MaxTime] : k \in 0..n } :
          \A i \in 1..(Len(st) - 1) : st[i] < st[i + 1] }

\* A plan the user created as an admin (create_plan sets user_id to the
\* admin's id and leaves the period dates unset).
OwnPlan(p) == [Templates[p] EXCEPT !.user_id = UserId]

\* The subscriptions table: the user never subscribed, or holds a row of one
\* plan (active or not), or rows of both, or is the admin who owns a plan.
QueryTables ==
    {Templates}
    \cup { Append(Templates, [UserRow(p, "none", Len(Templates) + 1, t) EXCEPT !.is_active = a]) :
               p \in DOMAIN Templates, t \in 0..MaxTime, a \in BOOLEAN }
    \cup { Templates \o << [UserRow(1, "none", Len(Templates) + 1, 0) EXCEPT !.is_active = a],
                           UserRow(2, "stripe_ok", Len(Templates) + 2, t) >> :
               t \in 0..MaxTime, a \in BOOLEAN }
    \cup { << OwnPlan(1), Templates[2] >>, << Templates[1], OwnPlan(2) >> }

QueryInit ==
    /\ subscriptions \in QueryTables
    /\ is_admin = (\E i \in UserRows(subscriptions) : subscriptions[i].payment_provider = "none")
    /\ has_used_free_limits \in BOOLEAN
    /\ \/ /\ ai_credits \in -MaxDebt..MaxCost
          /\ subscription_tokens_used \in 0..MaxUsed
          /\ resumes = << >>
          /\ cover_letters = << >>
       \/ /\ ai_credits \in 0..1
          /\ subscription_tokens_used = 0
          /\ resumes \in Stamps(MaxResumes)
          /\ cover_letters \in Stamps(MaxCoverLetters)
    /\ now = MaxTime
    /\ response = Registered
    /\ sessions = NoSessions
    /\ ledger = NoLedger

\* get_usage_summary (subscription_service.py:291-319).
get_usage_summary(subs, flag, credits, used, res, cls) ==
    LET limits == get_subscription_limits(subs, flag)
        ai_credits_remaining ==
            IF limits.ai_credits_limit > 0 THEN Max(0, limits.ai_credits_limit - used) ELSE 0
    IN  [kind |-> "usage",
         usage |-> get_current_usage(subs, res, cls),
         limits |-> limits,
         can_create_resume |-> check_resume_limit(subs, flag, credits, used, res, cls),
         can_create_cover_letter |-> check_cover_letter_limit(subs, flag, credits, used, res, cls),
         ai_credits |-> credits,
         ai_credits_used |-> used,
         ai_credits_remaining |-> ai_credits_remaining,
         has_used_free_limits |-> flag,
         is_free_tier |-> get_user_subscription(subs) = 0]

\* A handler that reads only: nothing but the response changes.
Answer(detail) ==
    /\ response' = [status |-> HTTP_200_OK, detail |-> detail]
    /\ UNCHANGED << user_vars, is_admin, subscriptions, resumes, cover_letters, now, conc_vars >>

\* subscriptions.py:585-599, GET /subscriptions/usage.
get_subscription_usage ==
    Answer(get_usage_summary(subscriptions, has_used_free_limits, ai_credits,
                             subscription_tokens_used, resumes, cover_letters))

\* subscriptions.py:601-614, GET /subscriptions/can-create-resume.
can_create_resume ==
    Answer([kind |-> "can_create_resume",
            can_create |-> check_resume_limit(subscriptions, has_used_free_limits, ai_credits,
                                              subscription_tokens_used, resumes, cover_letters)])

\* subscriptions.py:616-629, GET /subscriptions/can-create-cover-letter.
can_create_cover_letter ==
    Answer([kind |-> "can_create_cover_letter",
            can_create |-> check_cover_letter_limit(subscriptions, has_used_free_limits,
                                                    ai_credits, subscription_tokens_used,
                                                    resumes, cover_letters)])

\* A call of AICreditService.has_sufficient_credits(db, user, c).
sufficient_credits(c) ==
    Answer([kind |-> "has_sufficient_credits", required |-> c,
            result |-> has_sufficient_credits(subscriptions, has_used_free_limits, ai_credits,
                                              subscription_tokens_used, c)])

SufficientCredits == \E c \in Costs : sufficient_credits(c)

QueryNext ==
    \/ get_subscription_usage
    \/ can_create_resume
    \/ can_create_cover_letter
    \/ SufficientCredits

QuerySpec == QueryInit /\ [][QueryNext]_vars

\* ------------------------------------------------------------ SelectionSpec
\* A user with several active subscription rows: two subscribe requests that
\* raced left both rows active (any two plans, the newer with any period
\* start), or an admin who owns a plan row subscribed to a plan.
SelectionTables ==
    { Templates \o << UserRow(p, "none", Len(Templates) + 1, 0),
                      UserRow(q, "stripe_ok", Len(Templates) + 2, t) >> :
          p \in DOMAIN Templates, q \in DOMAIN Templates, t \in 0..MaxTime }
    \cup { << OwnPlan(1), Templates[2], UserRow(q, "none", Len(Templates) + 1, t) >> :
               q \in DOMAIN Templates, t \in 0..MaxTime }

SelectionInit ==
    /\ subscriptions \in SelectionTables
    /\ is_admin = (subscriptions[1].user_id = UserId)
    /\ has_used_free_limits = FALSE
    /\ \/ /\ ai_credits \in 0..1
          /\ subscription_tokens_used \in 0..MaxUsed
          /\ resumes = << >>
          /\ cover_letters = << >>
       \/ /\ ai_credits = 0
          /\ subscription_tokens_used = 0
          /\ resumes \in Stamps(MaxResumes)
          /\ cover_letters \in Stamps(MaxCoverLetters)
    /\ now = MaxTime
    /\ response = Registered
    /\ sessions = NoSessions
    /\ ledger = NoLedger

SelectionNext ==
    \/ get_subscription_usage
    \/ Charge

SelectionSpec == SelectionInit /\ [][SelectionNext]_vars

\* CancelSpec: the same users, who may also cancel.
CancelNext ==
    \/ Cancel
    \/ get_subscription_usage
    \/ Charge

CancelSpec == SelectionInit /\ [][CancelNext]_vars

\* ---------------------------------------------------------------- RetrySpec
\* db/utils.py: one retrying call at a time.  What the wrapped function does on
\* a call is the environment's choice; an exception is told from the others by
\* the call that raised it.
ConnectionErrors == {"OperationalError", "DisconnectionError"}
Outcomes == {"ok", "ValueError"} \cup ConnectionErrors

Returned(result) ==
    [status |-> HTTP_200_OK, detail |-> [kind |-> "returned", result |-> result]]
Raised(e) ==
    [status |-> HTTP_500_INTERNAL_SERVER_ERROR, detail |-> [kind |-> "raised", exception |-> e]]

RetryInit ==
    /\ ai_credits = TRIAL_AI_CREDITS
    /\ subscription_tokens_used = 0
    /\ has_used_free_limits = FALSE
    /\ is_admin = FALSE
    /\ subscriptions = Templates
    /\ resumes = << >>
    /\ cover_letters = << >>
    /\ now = 0
    /\ response = Registered
    /\ sessions = NoSessions
    /\ ledger = NoLedger

\* db/utils.py:14-27: the decorated function is called; the loop starts.
db_retry(r, max_retries) ==
    /\ \A q \in Requests : sessions[q].pc = "idle"
    /\ sessions' = [sessions EXCEPT ![r] = [pc |-> "wrapper", max_retries |-> max_retries,
                                            attempt |-> 0, last_exception |-> None]]
    /\ ledger' = [ledger EXCEPT !.calls = << >>]
    /\ UNCHANGED << user_vars, is_admin, subscriptions, resumes, cover_letters, now, response >>

\* The wrapper that retries after an exception of any class.
wrapper_retrying_all(r, outcome) ==
    LET me == sessions[r]
        e == [type |-> outcome, at |-> Len(ledger.calls) + 1]
    IN  /\ me.pc = "wrapper"
        /\ UNCHANGED << user_vars, is_admin, subscriptions, resumes, cover_letters, now >>
        /\ IF me.attempt >= me.max_retries + 1
           THEN /\ sessions' = [sessions EXCEPT ![r] = Idle]
                /\ response' = IF me.last_exception # None
                                THEN Raised(me.last_exception[1]) ELSE Returned(None)
                /\ UNCHANGED ledger
           ELSE /\ ledger' = [ledger EXCEPT !.calls = Append(@, outcome)]
                /\ IF outcome = "ok"
                   THEN /\ sessions' = [sessions EXCEPT ![r] = Idle]
                        /\ response' = Returned(Some(e.at))
                   ELSE IF me.attempt < me.max_retries
                   THEN /\ sessions' = [sessions EXCEPT ![r].attempt = @ + 1,
                                                        ![r].last_exception = Some(e)]
                        /\ UNCHANGED response
                   ELSE /\ sessions' = [sessions EXCEPT ![r] = Idle]
                        /\ response' = Raised(e)

\* db/utils.py:27-53: one turn of the wrapper's loop, or its end.
wrapper(r, outcome) ==
    LET me == sessions[r]
        e == [type |-> outcome, at |-> Len(ledger.calls) + 1]
    IN  /\ me.pc = "wrapper"
        /\ UNCHANGED << user_vars, is_admin, subscriptions, resumes, cover_letters, now >>
        /\ IF me.attempt >= me.max_retries + 1
           THEN /\ sessions' = [sessions EXCEPT ![r] = Idle]
                /\ response' = IF me.last_exception # None
                                THEN Raised(me.last_exception[1]) ELSE Returned(None)
                /\ UNCHANGED ledger
           ELSE /\ ledger' = [ledger EXCEPT !.calls = Append(@, outcome)]
                /\ IF outcome = "ok"
                   THEN /\ sessions' = [sessions EXCEPT ![r] = Idle]
                        /\ response' = Returned(Some(e.at))
                   ELSE IF outcome \in ConnectionErrors
                   THEN IF me.attempt < me.max_retries
                        THEN /\ sessions' = [sessions EXCEPT ![r].attempt = @ + 1,
                                                             ![r].last_exception = Some(e)]
                             /\ UNCHANGED response
                        ELSE /\ sessions' = [sessions EXCEPT ![r] = Idle]
                             /\ response' = Raised(e)
                   ELSE /\ sessions' = [sessions EXCEPT ![r] = Idle]
                        /\ response' = Raised(e)

\* db/utils.py:58-73: safe_db_operation is entered; max_retries = 3.
safe_db_operation(r) ==
    /\ \A q \in Requests : sessions[q].pc = "idle"
    /\ sessions' = [sessions EXCEPT ![r] = [pc |-> "safe_db_operation",
                                            max_retries |-> SAFE_DB_MAX_RETRIES,
                                            attempt |-> 0]]
    /\ ledger' = [ledger EXCEPT !.calls = << >>]
    /\ UNCHANGED << user_vars, is_admin, subscriptions, resumes, cover_letters, now, response >>

\* db/utils.py:73-91: one turn of safe_db_operation's loop, or its end.
safe_db_operation_attempt(r, outcome) ==
    LET me == sessions[r]
        e == [type |-> outcome, at |-> Len(ledger.calls) + 1]
    IN  /\ me.pc = "safe_db_operation"
        /\ UNCHANGED << user_vars, is_admin, subscriptions, resumes, cover_letters, now >>
        /\ IF me.attempt >= me.max_retries + 1
           THEN /\ sessions' = [sessions EXCEPT ![r] = Idle]
                /\ response' = Returned(None)
                /\ UNCHANGED ledger
           ELSE /\ ledger' = [ledger EXCEPT !.calls = Append(@, outcome)]
                /\ IF outcome = "ok"
                   THEN /\ sessions' = [sessions EXCEPT ![r] = Idle]
                        /\ response' = Returned(Some(e.at))
                   ELSE IF outcome \in ConnectionErrors
                   THEN IF me.attempt < me.max_retries
                        THEN /\ sessions' = [sessions EXCEPT ![r].attempt = @ + 1]
                             /\ UNCHANGED response
                        ELSE /\ sessions' = [sessions EXCEPT ![r] = Idle]
                             /\ response' = Raised(e)
                   ELSE /\ sessions' = [sessions EXCEPT ![r] = Idle]
                        /\ response' = Raised(e)

\* auth.py:71-72 decorates login_json with max_retries = 3; the other counts
\* are what a caller may pass.
DbRetry == \E r \in Requests, n \in -1..MaxRetries : db_retry(r, n)
Wrapper == \E r \in Requests, outcome \in Outcomes : wrapper(r, outcome)
SafeDbOperation == \E r \in Requests : safe_db_operation(r)
SafeDbOperationAttempt ==
    \E r \in Requests, outcome \in Outcomes : safe_db_operation_attempt(r, outcome)

RetryNext ==
    \/ DbRetry
    \/ Wrapper
    \/ SafeDbOperation
    \/ SafeDbOperationAttempt

RetrySpec == RetryInit /\ [][RetryNext]_vars

\* ---------------------------------------------------------------- ConcSpec
\* ConcSpec: a user with 0 or 1 bonus credits, without subscription or with an
\* active one of which 0 or 1 tokens are used.
ConcInit ==
    /\ ai_credits \in 0..1
    /\ has_used_free_limits = FALSE
    /\ is_admin = FALSE
    /\ \/ /\ subscriptions = Templates
          /\ subscription_tokens_used = 0
          /\ now = 0
       \/ /\ subscriptions = Append(Templates, UserRow(1, "none", Len(Templates) + 1, 0))
          /\ subscription_tokens_used \in 0..Templates[1].ai_credits_limit
          /\ now = 1
    /\ resumes = << >>
    /\ cover_letters = << >>
    /\ response = Registered
    /\ sessions = NoSessions
    /\ ledger = [start |-> available(subscriptions, has_used_free_limits, ai_credits,
                                     subscription_tokens_used),
                 granted |-> 0, clean |-> TRUE, begun |-> 0, reset_from |-> 0,
                 flag_from |-> FALSE, free_created |-> FALSE, gated |-> 0,
                 calls |-> << >>]

\* get_current_active_user: the session loads the user row.
Load(r, pc) ==
    [sessions[r] EXCEPT !.pc = pc, !.ai_credits = ai_credits,
                        !.subscription_tokens_used = subscription_tokens_used,
                        !.has_used_free_limits = has_used_free_limits]

\* An ORM flush writes the columns whose value differs from the loaded one.
Flush(loaded, new, stored) == IF new # loaded THEN new ELSE stored

\* A request that charges c credits is authenticated.
BeginCharge(r, c) ==
    /\ sessions[r].pc = "idle"
    /\ ledger.begun < MaxRequests
    /\ sessions' = [sessions EXCEPT ![r] = [Load(r, "charging") EXCEPT !.c = c]]
    /\ ledger' = [ledger EXCEPT !.begun = @ + 1]
    /\ UNCHANGED << user_vars, is_admin, subscriptions, resumes, cover_letters, now, response >>

\* check_and_deduct_credits on the session's user object, then commit.
FinishCharge(r) ==
    LET me == sessions[r]
        res == check_and_deduct_credits(subscriptions, me.has_used_free_limits,
                                        me.ai_credits, me.subscription_tokens_used, me.c)
    IN  /\ me.pc = "charging"
        /\ ai_credits' = Flush(me.ai_credits, res.ai_credits, ai_credits)
        /\ subscription_tokens_used' =
               Flush(me.subscription_tokens_used, res.subscription_tokens_used,
                     subscription_tokens_used)
        /\ response' = endpoint_response("resume_ai", res, FALSE)
        /\ ledger' = [ledger EXCEPT !.granted = IF res.ok THEN @ + me.c ELSE @]
        /\ sessions' = [sessions EXCEPT ![r] = Idle]
        /\ UNCHANGED << has_used_free_limits, is_admin, subscriptions, resumes,
                        cover_letters, now >>

\* subscribe_to_plan up to its Stripe call (subscriptions.py:91-178): the active
\* row found is deactivated and committed, the plan is looked up.
BeginSubscribe(r, plan_id, payment) ==
    \E existing \in first_active(subscriptions) :
        LET subs1 == Deactivate(subscriptions, existing)
            found == plan_id \in DOMAIN subs1 /\ subs1[plan_id].is_active
            rejected == ~found \/ (payment # "none" /\
                                   (payment = "stripe_error" \/ ~subs1[plan_id].stripe_price_id))
        IN  /\ sessions[r].pc = "idle"
            /\ ledger.begun < MaxRequests
            /\ subscriptions' = subs1
            /\ ledger' = [ledger EXCEPT !.begun = @ + 1,
                                        !.clean = @ /\ existing = 0]
            /\ IF rejected
               THEN /\ response' = IF found
                                   THEN [status |-> HTTP_400_BAD_REQUEST,
                                         detail |-> Detail("Stripe error")]
                                   ELSE [status |-> HTTP_404_NOT_FOUND,
                                         detail |-> Detail("Subscription plan not found")]
                    /\ UNCHANGED sessions
               ELSE /\ sessions' = [sessions EXCEPT ![r] =
                            [Load(r, "inserting") EXCEPT !.plan = plan_id, !.payment = payment]]
                    /\ UNCHANGED response
            /\ UNCHANGED << user_vars, is_admin, resumes, cover_letters, now >>

\* subscribe_to_plan from the insert on (subscriptions.py:189-228); the session
\* is expired by its commit, so the hook reads the user row afresh.
FinishSubscribe(r) ==
    LET me == sessions[r]
        id == Len(subscriptions) + 1
        subs2 == Append(subscriptions, new_subscription(subscriptions[me.plan], me.payment, id, now))
        h == handle_subscription_renewal_or_upgrade(
                 subs2, id, subscription_tokens_used, has_used_free_limits,
                 resumes, cover_letters, now)
    IN  /\ me.pc = "inserting"
        /\ Cardinality(UserRows(subscriptions)) < MaxSubs
        /\ now < MaxTime
        /\ now' = now + 1
        /\ subscriptions' = h.subscriptions
        /\ subscription_tokens_used' = h.subscription_tokens_used
        /\ has_used_free_limits' = h.has_used_free_limits
        /\ response' = [status |-> HTTP_200_OK, detail |-> Detail("subscribed")]
        /\ ledger' = [ledger EXCEPT !.clean = FALSE, !.reset_from = subscription_tokens_used,
                                    !.flag_from = has_used_free_limits]
        /\ sessions' = [sessions EXCEPT ![r] = Idle]
        /\ UNCHANGED << ai_credits, is_admin, resumes, cover_letters >>

\* cancel_subscription up to its Stripe call (subscriptions.py:236-255).
BeginCancel(r) ==
    \E sub \in first_active(subscriptions) :
        /\ sessions[r].pc = "idle"
        /\ ledger.begun < MaxRequests
        /\ ledger' = [ledger EXCEPT !.begun = @ + 1]
        /\ IF sub = 0
           THEN /\ response' = [status |-> HTTP_404_NOT_FOUND,
                                detail |-> Detail("No active subscription found")]
                /\ UNCHANGED sessions
           ELSE /\ sessions' = [sessions EXCEPT ![r] = [Load(r, "cancelling") EXCEPT !.sub = sub]]
                /\ UNCHANGED response
        /\ UNCHANGED << user_vars, is_admin, subscriptions, resumes, cover_letters, now >>

\* cancel_subscription from the Stripe call on (subscriptions.py:247-273).
FinishCancel(r, stripe_fails) ==
    LET me == sessions[r]
        usage == get_total_usage(resumes, cover_letters)
        flag == IF usage.resume_count > 0 \/ usage.cover_letter_count > 0
                THEN TRUE ELSE me.has_used_free_limits
    IN  /\ me.pc = "cancelling"
        /\ sessions' = [sessions EXCEPT ![r] = Idle]
        /\ UNCHANGED << ai_credits, is_admin, resumes, cover_letters, now >>
        /\ IF /\ subscriptions[me.sub].payment_provider = "stripe"
              /\ subscriptions[me.sub].subscription_id # None
              /\ stripe_fails
           THEN /\ response' = [status |-> HTTP_400_BAD_REQUEST, detail |-> Detail("Stripe error")]
                /\ UNCHANGED << subscriptions, subscription_tokens_used,
                                has_used_free_limits, ledger >>
           ELSE /\ subscriptions' = Deactivate(subscriptions, me.sub)
                /\ subscription_tokens_used' =
                       Flush(me.subscription_tokens_used, 0, subscription_tokens_used)
                /\ has_used_free_limits' =
                       Flush(me.has_used_free_limits, flag, has_used_free_limits)
                /\ response' = [status |-> HTTP_200_OK, detail |-> Detail("cancelled")]
                /\ ledger' = [ledger EXCEPT !.clean = FALSE]

\* create_resume up to the end of its gate (resume.py:120-127): the free-limits
\* bookkeeping is committed, the request is refused or goes on to parse its body.
BeginCreateResume(r) ==
    LET v == validate_creation("resume", subscriptions, has_used_free_limits, ai_credits,
                               subscription_tokens_used, resumes, cover_letters)
    IN  /\ sessions[r].pc = "idle"
        /\ ledger.begun < MaxRequests
        /\ ledger' = [ledger EXCEPT !.begun = @ + 1]
        /\ has_used_free_limits' = v.has_used_free_limits
        /\ IF v.allowed
           THEN /\ sessions' = [sessions EXCEPT ![r] =
                        [Load(r, "storing") EXCEPT
                             !.has_used_free_limits = v.has_used_free_limits]]
                /\ UNCHANGED response
           ELSE /\ response' = [status |-> HTTP_403_FORBIDDEN,
                                detail |-> Detail("limit reached")]
                /\ UNCHANGED sessions
        /\ UNCHANGED << ai_credits, subscription_tokens_used, is_admin, subscriptions,
                        resumes, cover_letters, now >>

\* create_resume from the insert on (resume.py:270-277).  Requests in flight
\* together fall into one tick of the clock.
FinishCreateResume(r) ==
    /\ sessions[r].pc = "storing"
    /\ Len(resumes) < MaxResumes
    /\ resumes' = Append(resumes, now)
    /\ response' = [status |-> HTTP_200_OK, detail |-> Detail("created")]
    /\ ledger' = [ledger EXCEPT !.free_created = @ \/ UserRows(subscriptions) = {},
                                    !.gated = @ + IF OnEmptyFreeTier THEN 1 ELSE 0]
    /\ sessions' = [sessions EXCEPT ![r] = Idle]
    /\ UNCHANGED << user_vars, is_admin, subscriptions, cover_letters, now >>

ConcBeginCharge == \E r \in Requests, c \in 1..MaxCost : BeginCharge(r, c)
ConcFinishCharge == \E r \in Requests : FinishCharge(r)
ConcBeginSubscribe ==
    \E r \in Requests, p \in 1..(Len(subscriptions) + 1), pay \in PaymentOutcomes :
        BeginSubscribe(r, p, pay)
ConcFinishSubscribe == \E r \in Requests : FinishSubscribe(r)
ConcBeginCancel == \E r \in Requests : BeginCancel(r)
ConcFinishCancel == \E r \in Requests, f \in BOOLEAN : FinishCancel(r, f)

ConcBeginCreateResume == \E r \in Requests : BeginCreateResume(r)
ConcFinishCreateResume == \E r \in Requests : FinishCreateResume(r)

ConcNext ==
    \/ ConcBeginCreateResume
    \/ ConcFinishCreateResume
    \/ ConcBeginCharge
    \/ ConcFinishCharge
    \/ ConcBeginSubscribe
    \/ ConcFinishSubscribe
    \/ ConcBeginCancel
    \/ ConcFinishCancel

ConcSpec == ConcInit /\ [][ConcNext]_vars

\* ------------------------------------------------------------------ claims
\* The endpoints that re-raise the ledger's HTTPException unchanged; their
\* response shows what check_and_deduct_credits answered.
Reraising == { e \in AIEndpoints : on_http_exception(e) = "reraise" }

ai_credits_limit_now == get_subscription_limits(subscriptions, has_used_free_limits).ai_credits_limit
subscription_remaining_now == Max(0, ai_credits_limit_now - subscription_tokens_used)

\* C1 (ConcSpec): while no subscription changes, the credits granted to the
\* concurrent check_and_deduct_credits calls never exceed the credits that were
\* available at the start.
C1_ConcurrentDeductsNeverOverdraw ==
    ledger.clean => ledger.granted <= ledger.start

\* C2 (Spec): a successful check_and_deduct_credits of c takes min(bonus, c)
\* from the bonus credits and adds the remainder to subscription_tokens_used.
C2_BonusFirstThenSubscription ==
    [][\A e \in Reraising, c \in Costs :
          (ai_endpoint(e, c, FALSE) /\ ai_credits + subscription_remaining_now >= c)
          => /\ ai_credits' = ai_credits - Min(ai_credits, c)
             /\ subscription_tokens_used' =
                    subscription_tokens_used + (c - Min(ai_credits, c))]_vars

\* C3 (Spec): check_and_deduct_credits answers 402, naming the required amount,
\* the bonus balance and the subscription remaining, exactly when bonus + max(0,
\* limit - used) < c, and then leaves both balances as they were.
C3_DeniedExactlyOnShortfall ==
    [][\A e \in Reraising, c \in Costs, f \in BOOLEAN :
          ai_endpoint(e, c, f)
          => LET short == ai_credits + subscription_remaining_now < c
             IN  /\ (response'.status = HTTP_402_PAYMENT_REQUIRED) <=> short
                 /\ short => /\ response'.detail =
                                    [kind |-> "Not enough AI credits", required |-> c,
                                     bonus |-> ai_credits,
                                     subscription |-> subscription_remaining_now]
                             /\ ai_credits' = ai_credits
                             /\ subscription_tokens_used' = subscription_tokens_used]_vars

\* A denial of a 2-credit request to a user who holds one bonus credit, and
\* still holds it afterwards.
C3_Witness ==
    /\ response.status = HTTP_402_PAYMENT_REQUIRED
    /\ response.detail.kind = "Not enough AI credits"
    /\ response.detail.required = 2
    /\ response.detail.bonus = 1
    /\ ai_credits = 1

\* C4 (Spec): the bonus credits are never negative.
C4_BonusNeverNegative == ai_credits >= 0

\* C5 (LifecycleSpec): subscription_tokens_used never exceeds the effective
\* ai_credits_limit.
C5_TokensWithinLimit == subscription_tokens_used <= ai_credits_limit_now

\* C6 (LifecycleSpec): whenever a subscription row of the user is created or
\* its current_period_start is moved, subscription_tokens_used is 0 afterwards.
C6_ResetOnNewPeriod ==
    [][(\E i \in UserRows(subscriptions') :
            \/ i \notin DOMAIN subscriptions
            \/ subscriptions'[i].current_period_start # subscriptions[i].current_period_start)
       => subscription_tokens_used' = 0]_vars

\* C7 (LifecycleSpec): after handle_subscription_renewal_or_upgrade, which
\* subscribe_to_plan runs on the row it has just inserted with its period dates
\* set, subscription_tokens_used is 0 and the bonus credits are what they were.
C7_HookResetsTokensKeepsBonus ==
    [][Len(subscriptions') > Len(subscriptions)
          => /\ subscriptions'[Len(subscriptions')].current_period_start # None
             /\ subscription_tokens_used' = 0
             /\ ai_credits' = ai_credits]_vars

\* The hook has just reset a count that was above 0.
C7_Witness ==
    /\ response.detail.kind = "subscribed"
    /\ ledger.reset_from > 0
    /\ subscription_tokens_used = 0

\* C8 (ConcSpec): the user has at most one active subscription row.
C8_AtMostOneActive == Cardinality(active_subscriptions(subscriptions)) <= 1

\* C9 (Spec): the generate-ai-pdf endpoints charge their credit as
\* check_and_deduct_credits does, so they accept whenever bonus + subscription
\* remaining covers it.
C9_ChargedThroughLedger ==
    [][\A f \in BOOLEAN :
          (generate_resume_ai_pdf(TRUE, f) \/ generate_cover_letter_ai_pdf(TRUE, f))
          => LET r == check_and_deduct_credits(subscriptions, has_used_free_limits,
                                               ai_credits, subscription_tokens_used, 1)
             IN  /\ ai_credits' = r.ai_credits
                 /\ subscription_tokens_used' = r.subscription_tokens_used
                 /\ (ai_credits + subscription_remaining_now >= 1
                         => response'.status # HTTP_402_PAYMENT_REQUIRED)]_vars

\* C10 (Spec): an AI endpoint whose charge is denied answers 402 with the
\* ledger's shortfall message.
C10_DenialSurfacesAs402 ==
    [][\A e \in AIEndpoints, c \in Costs, f \in BOOLEAN :
          (ai_endpoint(e, c, f) /\ ai_credits + subscription_remaining_now < c)
          => /\ response'.status = HTTP_402_PAYMENT_REQUIRED
             /\ response'.detail = [kind |-> "Not enough AI credits", required |-> c,
                                    bonus |-> ai_credits,
                                    subscription |-> subscription_remaining_now]]_vars

\* The user's rows with is_active set that no other such row beats on
\* (ai_credits_limit, creation order): the subscription that is in force.
InForce ==
    { i \in UserRows(subscriptions) :
        /\ subscriptions[i].is_active
        /\ \A j \in UserRows(subscriptions) \ {i} :
               subscriptions[j].is_active =>
                   \/ subscriptions[j].ai_credits_limit < subscriptions[i].ai_credits_limit
                   \/ /\ subscriptions[j].ai_credits_limit = subscriptions[i].ai_credits_limit
                      /\ j < i }

Unlimited(n) == IF n = -1 THEN None ELSE Some(n)

\* C11 (QuerySpec): get_subscription_limits gives the limits of the active
\* subscription, -1 read as unlimited and ai_credits_limit as stored; without
\* active subscription 0/0/0 once the free limits are used and 20/20/0
\* otherwise; and it changes no field of the user or of a subscription.
C11_LimitsResolved ==
    [][get_subscription_usage
       => /\ UNCHANGED << user_vars, subscriptions >>
          /\ IF InForce = {}
             THEN response'.detail.limits =
                      IF has_used_free_limits
                      THEN [resume_limit |-> Some(0), cover_letter_limit |-> Some(0),
                            ai_credits_limit |-> 0]
                      ELSE [resume_limit |-> Some(20), cover_letter_limit |-> Some(20),
                            ai_credits_limit |-> 0]
             ELSE \E i \in InForce :
                      response'.detail.limits =
                          [resume_limit |-> Unlimited(subscriptions[i].resume_limit),
                           cover_letter_limit |-> Unlimited(subscriptions[i].cover_letter_limit),
                           ai_credits_limit |-> subscriptions[i].ai_credits_limit]]_vars

\* The limits of a user on an unlimited plan have been read.
C11_Witness ==
    /\ response.detail.kind = "usage"
    /\ InForce # {}
    /\ response.detail.limits.resume_limit = None
    /\ response.detail.limits.ai_credits_limit > 0

\* C15 (QuerySpec): get_current_usage counts the resumes and cover letters
\* created at or after the current_period_start of the subscription in force,
\* and all of them when there is no such subscription or it has no period start.
C15_UsageOfCurrentPeriod ==
    [][get_subscription_usage
       => LET dated == { i \in InForce : subscriptions[i].current_period_start # None }
              InPeriod(seq, T) == Len(SelectSeq(seq, LAMBDA created_at : created_at >= T))
          IN  IF dated = {}
              THEN response'.detail.usage =
                       [resume_count |-> Len(resumes),
                        cover_letter_count |-> Len(cover_letters)]
              ELSE \E i \in dated :
                       response'.detail.usage =
                           [resume_count |->
                                InPeriod(resumes, subscriptions[i].current_period_start[1]),
                            cover_letter_count |->
                                InPeriod(cover_letters,
                                         subscriptions[i].current_period_start[1])]]_vars

\* The usage of a user with a resume from before the period, left out, and one
\* created at its very start, counted.
C15_Witness ==
    /\ response.detail.kind = "usage"
    /\ \E i \in InForce, k \in DOMAIN resumes, l \in DOMAIN resumes :
           /\ subscriptions[i].current_period_start # None
           /\ resumes[k] < subscriptions[i].current_period_start[1]
           /\ resumes[l] = subscriptions[i].current_period_start[1]
    /\ response.detail.usage.resume_count = Len(resumes) - 1

\* C20 (QuerySpec): has_sufficient_credits(user, c) is true exactly when bonus
\* + max(0, limit - used) >= c, which is when check_and_deduct_credits(user, c)
\* succeeds in the same state, and it changes no field.
C20_SufficientIffDeductSucceeds ==
    [][\A c \in Costs :
          sufficient_credits(c)
          => /\ UNCHANGED << user_vars, subscriptions >>
             /\ response'.detail.result = (ai_credits + subscription_remaining_now >= c)
             /\ response'.detail.result =
                    check_and_deduct_credits(subscriptions, has_used_free_limits, ai_credits,
                                             subscription_tokens_used, c).ok]_vars

\* A request covered by the subscription tokens alone was found sufficient.
C20_Witness ==
    /\ response.detail.kind = "has_sufficient_credits"
    /\ response.detail.required > 0
    /\ ai_credits <= 0
    /\ response.detail.result

\* The closed form of the creation gate, for the flag the bookkeeping leaves.
GateOpen(kind, flag) ==
    LET limits == get_subscription_limits(subscriptions, flag)
        usage == get_current_usage(subscriptions, resumes, cover_letters)
        limit == IF kind = "resume" THEN limits.resume_limit ELSE limits.cover_letter_limit
        count == IF kind = "resume" THEN usage.resume_count ELSE usage.cover_letter_count
    IN  \/ limit = None
        \/ limit # None /\ count < limit[1]
        \/ ai_credits > 0
        \/ Max(0, limits.ai_credits_limit - subscription_tokens_used) > 0

\* C12: a creation request stores the resume (the cover letter) exactly when,
\* with the flag as the free-limits bookkeeping leaves it, the limit is None, or
\* the current-period count is below the limit, or the bonus credits are
\* positive, or max(0, ai_credits_limit - subscription_tokens_used) is positive;
\* otherwise it is refused with the limit error and nothing is stored.
C12_GateAllowsExactlyWhen ==
    [][/\ create_resume =>
            /\ (Len(resumes') = Len(resumes) + 1) = GateOpen("resume", has_used_free_limits')
            /\ (response'.status = HTTP_403_FORBIDDEN /\ resumes' = resumes)
                   = ~GateOpen("resume", has_used_free_limits')
       /\ create_cover_letter =>
            /\ (Len(cover_letters') = Len(cover_letters) + 1)
                   = GateOpen("cover_letter", has_used_free_limits')
            /\ (response'.status = HTTP_403_FORBIDDEN /\ cover_letters' = cover_letters)
                   = ~GateOpen("cover_letter", has_used_free_limits')]_vars

\* A never-subscribed user whose free limits are used up (limit 0) and who had a
\* single bonus credit has just stored a second resume.
C12_Witness ==
    /\ response.detail.kind = "created"
    /\ UserRows(subscriptions) = {}
    /\ has_used_free_limits
    /\ ai_credits = 1
    /\ Len(resumes) = 2

\* C13 (LifecycleSpec): when a user with no active subscription and
\* has_used_free_limits false has a resume-creation request pass the gate and
\* store the resume, has_used_free_limits is true afterwards.
C13_FirstFreeResumeSetsFlag ==
    [][(/\ create_resume
        /\ InForce = {}
        /\ ~has_used_free_limits
        /\ Len(resumes') = Len(resumes) + 1) => has_used_free_limits']_vars

\* The limits a user without a subscription in force gets once the flag is set.
FreeTierSpent ==
    (has_used_free_limits /\ InForce = {}) =>
        LET limits == get_subscription_limits(subscriptions, has_used_free_limits)
        IN  limits.resume_limit = Some(0) /\ limits.cover_letter_limit = Some(0)

\* C14 (LifecycleSpec): has_used_free_limits is monotone, no step (gate
\* validation, subscribe, cancel, Stripe webhook, credit deduction, deletion)
\* sets it back to false, and a user without an active subscription whose flag
\* is true resolves to resume_limit 0 and cover_letter_limit 0, before and
\* after every step.
C14_FlagMonotone ==
    [][/\ has_used_free_limits => has_used_free_limits'
       /\ FreeTierSpent
       /\ FreeTierSpent']_vars

\* The flag was true when the user subscribed, the subscription has since been
\* cancelled, every resource has been deleted, and the flag is still true.
C14_Witness ==
    /\ response.detail.kind = "deleted"
    /\ ledger.flag_from
    /\ has_used_free_limits
    /\ UserRows(subscriptions) # {}
    /\ InForce = {}
    /\ resumes = << >>
    /\ cover_letters = << >>

\* C16 (LifecycleSpec): after a successful cancel_subscription the cancelled
\* row still exists with is_active false, subscription_tokens_used is 0, the
\* bonus credits are unchanged, and has_used_free_limits is true if the user
\* had created a resume or cover letter before ever subscribing.
C16_CancelOutcome ==
    [][(Cancel /\ response'.status = HTTP_200_OK) =>
           /\ Len(subscriptions') = Len(subscriptions)
           /\ \E i \in UserRows(subscriptions) :
                  /\ subscriptions[i].is_active
                  /\ ~subscriptions'[i].is_active
                  /\ subscriptions' = [subscriptions EXCEPT ![i].is_active = FALSE]
           /\ subscription_tokens_used' = 0
           /\ ai_credits' = ai_credits
           /\ ledger.free_created => has_used_free_limits']_vars

Deducted ==
    \E c \in Costs :
        LET r == check_and_deduct_credits(subscriptions, has_used_free_limits,
                                          ai_credits, subscription_tokens_used, c)
        IN  /\ r.ok
            /\ ai_credits' = r.ai_credits
            /\ subscription_tokens_used' = r.subscription_tokens_used

\* The step is a successful subscribe (a row is inserted) or a successful
\* cancel (a row of the user goes from active to inactive on the user's request).
SubscribedOrCancelled ==
    \/ Len(subscriptions') > Len(subscriptions)
    \/ /\ response'.detail.kind = "cancelled"
       /\ \E i \in UserRows(subscriptions) :
              subscriptions[i].is_active /\ ~subscriptions'[i].is_active

\* C18 (LifecycleSpec): with every operation one atomic step,
\* subscription_tokens_used changes only by a deduction, which increases it, or
\* by a subscribe or cancel, which sets it to exactly 0; it is never lowered to
\* a non-zero value, and the gate, the webhooks and the deletions leave it alone.
C18_TokensChangeOnlyByDeductOrReset ==
    [][subscription_tokens_used' # subscription_tokens_used =>
           /\ \/ subscription_tokens_used' > subscription_tokens_used /\ Deducted
              \/ subscription_tokens_used' = 0 /\ SubscribedOrCancelled
           /\ ~(Webhook \/ create_resume \/ create_cover_letter \/ DeleteResume
                    \/ DeleteCoverLetter)]_vars

\* After a subscribe reset a positive count, a deduction has raised it again.
C18_Witness ==
    /\ ledger.reset_from > 0
    /\ subscription_tokens_used > 0
    /\ response.detail.kind = "ok"

\* C19 (Spec): add_credits(user, n), called by POST /auth/credits/add for an
\* admin and with n = TRIAL_AI_CREDITS by the trial grant, raises the bonus
\* credits by exactly n and returns the new balance; subscription_tokens_used,
\* has_used_free_limits and every subscription row are unchanged.
C19_AddCreditsAddsExactly ==
    [][/\ \A n \in AddAmounts :
              (is_admin /\ auth_add_credits(n)) =>
                  /\ ai_credits' = ai_credits + n
                  /\ response'.detail.new_balance = ai_credits'
                  /\ UNCHANGED << subscription_tokens_used, has_used_free_limits,
                                  subscriptions >>
       /\ give_trial_credits_to_user =>
              /\ ai_credits' = ai_credits + TRIAL_AI_CREDITS
              /\ UNCHANGED << subscription_tokens_used, has_used_free_limits,
                              subscriptions >>]_vars

\* An admin with subscription tokens used and a bonus balance of 1 has just
\* been granted 2 credits and was told the new balance, 3.
C19_Witness ==
    /\ response.detail = [kind |-> "added", credits |-> 2, new_balance |-> 3]
    /\ ai_credits = 3
    /\ subscription_tokens_used > 0

C22_ResetNotLost ==
    [][\A r \in Requests :
          (/\ FinishCharge(r)
           /\ sessions[r].subscription_tokens_used > 0
           /\ subscription_tokens_used = 0)
          => subscription_tokens_used' <= sessions[r].c]_vars

\* C23 (ConcSpec): for a user whose subscription in force has a finite
\* resume_limit L and whose bonus credits and remaining subscription tokens
\* have been 0 all along (none at the start, no subscribe or cancel since),
\* the resumes of the current billing period never number more than L when a
\* create-resume request stores its resume.
C23_GateAndInsertAtomic ==
    [][\A r \in Requests : \A i \in InForce :
          (/\ FinishCreateResume(r)
           /\ ledger.start = 0
           /\ ledger.clean
           /\ subscriptions[i].resume_limit # -1
           /\ subscriptions[i].current_period_start # None
           /\ sessions[r].ai_credits = 0
           /\ sessions[r].subscription_tokens_used >= subscriptions[i].ai_credits_limit
           /\ ai_credits = 0
           /\ subscription_tokens_used >= subscriptions[i].ai_credits_limit)
          => CountSince(resumes', subscriptions[i].current_period_start[1])
                 <= subscriptions[i].resume_limit]_vars

\* C24 (LifecycleSpec): when subscribe_to_plan is rejected (404 plan not found,
\* 400 Stripe error) the user's subscription state is unchanged: every row is
\* as it was, a subscription active before the request is still active.
C24_RejectedSubscribeChangesNothing ==
    [][(/\ Subscribe
        /\ response'.status \in {HTTP_404_NOT_FOUND, HTTP_400_BAD_REQUEST})
       => /\ subscriptions' = subscriptions
          /\ \A i \in UserRows(subscriptions) :
                 subscriptions[i].is_active => subscriptions'[i].is_active
          /\ UNCHANGED user_vars]_vars

\* The gate finds the user at the cap of the kind: with the flag as the
\* bookkeeping leaves it the limit is finite and the period's count has reached it.
AtCap(kind, flag) ==
    LET limits == get_subscription_limits(subscriptions, flag)
        usage == get_current_usage(subscriptions, resumes, cover_letters)
        limit == IF kind = "resume" THEN limits.resume_limit ELSE limits.cover_letter_limit
        count == IF kind = "resume" THEN usage.resume_count ELSE usage.cover_letter_count
    IN  limit # None /\ count >= limit[1]

\* C25 (GateSpec): a creation request, allowed or refused, changes neither the
\* bonus credits nor subscription_tokens_used, and of the user's fields only
\* has_used_free_limits, from false to true; a user at the cap with one bonus
\* credit is let through and still has the credit afterwards.
C25_GateSpendsNothing ==
    [][/\ (create_resume \/ create_cover_letter) =>
              /\ UNCHANGED << ai_credits, subscription_tokens_used, is_admin, subscriptions >>
              /\ has_used_free_limits => has_used_free_limits'
       /\ (create_resume /\ AtCap("resume", has_used_free_limits') /\ ai_credits = 1) =>
              Len(resumes') = Len(resumes) + 1 /\ ai_credits' = 1
       /\ (create_cover_letter /\ AtCap("cover_letter", has_used_free_limits')
               /\ ai_credits = 1) =>
              Len(cover_letters') = Len(cover_letters) + 1 /\ ai_credits' = 1]_vars

\* A never-subscribed user who had one resume and one bonus credit has since
\* stored a second resume and then a cover letter, both past the limit of 0,
\* and still has the credit.
C25_Witness ==
    /\ UserRows(subscriptions) = {}
    /\ has_used_free_limits
    /\ resumes = << 0, 0 >>
    /\ cover_letters = << 1 >>
    /\ ai_credits = 1
    /\ response.detail.kind = "created"

\* C26 (LifecycleSpec): a user with no subscription in force, the flag false
\* and no credit of either kind passes the creation gate only while no resume
\* and no cover letter exists; a gate call that finds a resource sets the flag
\* and refuses.  In a sequential run such a user therefore stores at most one
\* gated resource in total.
C26_OneFreeResourceInTotal ==
    [][/\ ((create_resume \/ create_cover_letter) /\ OnEmptyFreeTier) =>
              IF resumes = << >> /\ cover_letters = << >>
              THEN /\ response'.status = HTTP_200_OK
                   /\ Len(resumes') + Len(cover_letters') = 1
                   /\ ~has_used_free_limits'
              ELSE /\ response'.status = HTTP_403_FORBIDDEN
                   /\ has_used_free_limits'
                   /\ UNCHANGED << resumes, cover_letters >>
       /\ ledger'.gated <= 1]_vars

C28_OnlyAdminsRaiseBalance ==
    [][(~is_admin /\ ai_credits' > ai_credits)
          => \/ give_trial_credits_to_user
             \/ give_trial_credits_to_all_zero_credit_users]_vars


\* C29 (CancelSpec): after a successful POST /subscriptions/cancel the user has
\* no active subscription: get_user_subscription gives none and the effective
\* ai_credits_limit is 0, whatever rows the user had before.
C29_CancelLeavesNoneActive ==
    [][(Cancel /\ response'.status = HTTP_200_OK)
          => /\ get_user_subscription(subscriptions') = 0
             /\ get_subscription_limits(subscriptions', has_used_free_limits').ai_credits_limit = 0]_vars


\* C30 (RetrySpec): a call through db_retry(max_retries = n) calls the wrapped
\* function at most n + 1 times; a further call is made only after calls that
\* all raised OperationalError or DisconnectionError; a call that succeeds ends
\* the loop with its result, a call that raises another exception ends it with
\* that exception, and a connection error on call n + 1 ends it with that last
\* error, an earlier one leads to a retry.  safe_db_operation does the same
\* with n = 3.
C30_BoundedRetry ==
    [][\A r \in Requests :
          (sessions[r].pc \in {"wrapper", "safe_db_operation"} /\ sessions'[r] # sessions[r])
          => LET n == sessions[r].max_retries
                 calls == ledger'.calls
                 called == calls # ledger.calls
                 stops == sessions'[r].pc = "idle"
                 e == [type |-> calls[Len(calls)], at |-> Len(calls)]
             IN  /\ sessions[r].pc = "safe_db_operation" => n = 3
                 /\ Len(calls) <= Max(0, n + 1)
                 /\ \A k \in 1..Len(ledger.calls) : ledger.calls[k] \in ConnectionErrors
                 /\ called => Len(calls) = Len(ledger.calls) + 1
                 /\ ~called => stops
                 /\ (called /\ e.type = "ok") =>
                        stops /\ response' = Returned(Some(e.at))
                 /\ (called /\ e.type \notin ConnectionErrors \cup {"ok"}) =>
                        stops /\ response' = Raised(e)
                 /\ (called /\ e.type \in ConnectionErrors) =>
                        IF Len(calls) = n + 1
                        THEN stops /\ response' = Raised(e)
                        ELSE ~stops /\ response' = response]_vars

\* login_json's four calls (max_retries = 3) all failed with a connection error
\* and the fourth error was raised.
C30_Witness ==
    /\ \A r \in Requests : sessions[r].pc = "idle"
    /\ Len(ledger.calls) = 4
    /\ response.detail.kind = "raised"
    /\ response.detail.exception.at = 4
    /\ response.detail.exception.type \in ConnectionErrors

====
